---- MODULE Spec2Model ----
(***************************************************************************)
(* Model of sentence-highlighter.js (class SentenceHighlighter): the       *)
(* tokenizer (buildSentenceMap), the identity assigner                     *)
(* (generateSentenceId / simpleHash), the active-sentence resolution       *)
(* (findActiveSentenceIndex), the render reconciler (scanAndHighlight,     *)
(* rebuildHighlights, updateActiveSentence...), the timer-based scheduler  *)
(* (handleInput, handleNavigation, handleCaretMove, the keydown listener)  *)
(* and the instance life cycle (constructor / init / destroy).             *)
(*                                                                         *)
(* A text is a sequence of one-character strings; offsets are 0-based as   *)
(* in the source, so the character at offset i of text t is t[i + 1].      *)
(***************************************************************************)
EXTENDS Integers, Sequences, FiniteSets, TLC

VARIABLES
  \* --- inputs and results of the pure functions (tokenizer specifications)
  tokText,        \* the plain text handed to buildSentenceMap
  tokCaret,       \* the caret offset handed to findActiveSentenceIndex
  tokSentences,   \* the sentence array (result of buildSentenceMap, or drawn)
  tokIndex,       \* the result of findActiveSentenceIndex
  tokPc,          \* "in": inputs drawn, "out": results computed, "off": unused
  idA, idB,       \* two calls of generateSentenceId: arguments and result
  \* --- the document
  editorDom,      \* content of the editor element (see "editing surface")
  caret,          \* the collapsed selection inside the editor
  editorClasses,  \* classes of the editor element that the instance manages
  listeners,      \* event listeners of the instance still attached
  \* --- the scheduler
  timers,         \* outstanding setTimeout callbacks
  rafRestore,     \* offset of the pending requestAnimationFrame restore, or -1
  \* --- fields of the SentenceHighlighter instance
  sentenceMap,
  sentenceElements,
  activeSentenceId,
  lastContentHash,
  isInitialized,
  focusModeEnabled,
  \* --- observation
  life,           \* "live", "destroyed" (destroy returned), "failed" (it threw)
  ev,             \* what the last step ran and which observer calls it made
  burst           \* bookkeeping of runs of input signals (debounce claims)

tokVars == <<tokText, tokCaret, tokSentences, tokIndex, tokPc, idA, idB>>

sysVars == <<editorDom, caret, editorClasses, listeners, timers, rafRestore,
             sentenceMap, sentenceElements, activeSentenceId, lastContentHash,
             isInitialized, focusModeEnabled, life, ev, burst>>

\* ------------------------------------------------------------------ bounds
\* Longest text drawn as input of the tokenizer specification.
MaxTokLen == 5
\* Largest offset of the interval sequences drawn for findActiveSentenceIndex.
MaxOff == 4
\* Longest tail appended to the base text handed to generateSentenceId.
MaxTail == 3
\* Longest text the editor holds (typing is disabled at this length).
MaxLen == 3
\* The counters of input signals in a run saturate here.
MaxRun == 3

\* ------------------------------------------------------- program constants
\* options.updateDebounce and options.updateThrottle defaults.
updateDebounce == 100

updateThrottle == 50

\* Delay of the scan scheduled by handleInput right after a terminator.
FastPathDelay == 10

\* Delay of the scan scheduled by the keydown listener.
KeydownDelay == 20

\* Delay of the initial scan scheduled by init.
InitDelay == 10

\* -------------------------------------------------------------- characters
\* Characters of the modelled texts: a letter, a blank, two terminators.
Alphabet == {"a", " ", ".", "?"}

\* options.sentenceEndings default.
sentenceEndings == {".", "!", "?"}

\* \s of the regular expression and the characters String.prototype.trim strips.
IsWhitespace(c) == c = " "

IsEnding(c) == c \in sentenceEndings

\* String.prototype.charCodeAt for the characters that can occur in an id key.
charCodeAt(c) ==
  CASE c = " " -> 32
    [] c = "!" -> 33
    [] c = "-" -> 45
    [] c = "." -> 46
    [] c = "0" -> 48
    [] c = "1" -> 49
    [] c = "2" -> 50
    [] c = "3" -> 51
    [] c = "4" -> 52
    [] c = "5" -> 53
    [] c = "6" -> 54
    [] c = "7" -> 55
    [] c = "8" -> 56
    [] c = "9" -> 57
    [] c = "?" -> 63
    [] c = "a" -> 97
    [] c = "e" -> 101
    [] c = "f" -> 102
    [] c = "l" -> 108
    [] c = "r" -> 114
    [] c = "s" -> 115
    [] c = "t" -> 116
    [] c = "u" -> 117

\* ------------------------------------------------------------ string helpers
\* String.prototype.substring(from, to) on 0-based offsets, clamped to the text.
Substring(t, from, to) ==
  LET a == IF from > Len(t) THEN Len(t) ELSE from
      b == IF to > Len(t) THEN Len(t) ELSE to
  IN  IF a >= b THEN << >> ELSE SubSeq(t, a + 1, b)

\* !text.trim(): the text is empty or holds only whitespace.
IsBlank(t) == \A i \in 1..Len(t) : IsWhitespace(t[i])

DigitChar(d) == <<"0", "1", "2", "3", "4", "5", "6", "7", "8", "9">>[d + 1]

\* Decimal rendering of a non-negative integer, as a template literal does.
RECURSIVE NumToString(_)
NumToString(n) ==
  IF n < 10 THEN <<DigitChar(n)>>
  ELSE NumToString(n \div 10) \o <<DigitChar(n % 10)>>

\* -------------------------------------------------------- identity assigner
\* One step of simpleHash on the unsigned 32-bit value h = <<high, low>>
\* (16-bit halves): ((hash << 5) - hash) + char, then hash & hash.
HashStep(h, code) ==
  LET lo == h[2] * 31 + code
      hi == h[1] * 31 + (lo \div 65536)
  IN  <<hi % 65536, lo % 65536>>

\* The for loop of simpleHash.  The halves of h are never negative; testing
\* h[1] makes the value of hash be computed at each iteration, as the loop
\* does, rather than all at once after the last character.
RECURSIVE HashLoop(_, _, _)
HashLoop(str, i, h) ==
  IF i > Len(str) \/ h[1] < 0 THEN h
  ELSE HashLoop(str, i + 1, HashStep(h, charCodeAt(str[i])))

\* Math.abs of the signed reading of the 32-bit value.
AbsInt32(h) ==
  IF h[1] < 32768 THEN h
  ELSE IF h[2] = 0 THEN <<65536 - h[1], 0>>
  ELSE <<65535 - h[1], 65536 - h[2]>>

\* Number.prototype.toString(36): the base-36 digits, most significant first.
RECURSIVE ToBase36(_)
ToBase36(h) ==
  LET qhi == h[1] \div 36
      mid == (h[1] % 36) * 65536 + h[2]
      qlo == mid \div 36
      r   == mid % 36
  IN  IF qhi = 0 /\ qlo = 0 THEN <<r>>
      ELSE ToBase36(<<qhi, qlo>>) \o <<r>>

simpleHash(str) == ToBase36(AbsInt32(HashLoop(str, 1, <<0, 0>>)))

\* The key built from the whole text instead of text.substring(0, 20).
generateSentenceIdWholeText(start, end, text, isHeading) ==
  simpleHash(NumToString(start) \o <<"-">> \o NumToString(end) \o <<"-">>
             \o text \o <<"-">>
             \o (IF isHeading THEN <<"t", "r", "u", "e">>
                 ELSE <<"f", "a", "l", "s", "e">>))

\* The id is 'sentence-' followed by the base-36 digits; the model keeps the
\* digits (the prefix is constant).
generateSentenceId(start, end, text, isHeading) ==
  simpleHash(NumToString(start) \o <<"-">> \o NumToString(end) \o <<"-">>
             \o Substring(text, 0, 20) \o <<"-">>
             \o (IF isHeading THEN <<"t", "r", "u", "e">>
                 ELSE <<"f", "a", "l", "s", "e">>))

\* ---------------------------------------------------------------- tokenizer
RECURSIVE TextsOfLen(_)
TextsOfLen(n) ==
  IF n = 0 THEN {<< >>}
  ELSE {Append(t, c) : t \in TextsOfLen(n - 1), c \in Alphabet}

\* Longest text of any specification.
MaxText ==
  IF MaxTokLen >= MaxLen /\ MaxTokLen >= MaxOff THEN MaxTokLen
  ELSE IF MaxLen >= MaxOff THEN MaxLen ELSE MaxOff

\* generateSentenceId(start, end, chunk, false) for every chunk of a text of
\* the model, computed once.
SentenceIds ==
  [k \in {<<start, chunk>> \in (0..MaxText) \X UNION {TextsOfLen(n) : n \in 1..MaxText} :
            start + Len(chunk) <= MaxText}
     |-> generateSentenceId(k[1], k[1] + Len(k[2]), k[2], FALSE)] @@ << >>

\* The record with the chunk's last whitespace character stripped from text.
SentenceStripped(start, end, chunk) ==
  [id |-> SentenceIds[<<start, chunk>>],
   text |-> IF Len(chunk) > 1 /\ IsWhitespace(chunk[Len(chunk)])
            THEN SubSeq(chunk, 1, Len(chunk) - 1) ELSE chunk,
   start |-> start, end |-> end, isHeading |-> FALSE]

\* The record buildSentenceMap pushes for the chunk at [start, end).
Sentence(start, end, chunk) ==
  [id |-> SentenceIds[<<start, chunk>>],
   text |-> chunk, start |-> start, end |-> end, isHeading |-> FALSE]

\* A run that ends at whitespace too (the class [^endings\s]).
RECURSIVE RunEndAtSpace(_, _)
RunEndAtSpace(t, i) ==
  IF i >= Len(t) \/ IsEnding(t[i + 1]) \/ IsWhitespace(t[i + 1]) THEN i
  ELSE RunEndAtSpace(t, i + 1)

\* First offset >= i that is the text's end or holds a terminator:
\* the end of the greedy run [^endings]+ .
RECURSIVE RunEnd(_, _)
RunEnd(t, i) ==
  IF i >= Len(t) \/ IsEnding(t[i + 1]) THEN i ELSE RunEnd(t, i + 1)

\* End of the greedy \s* starting at offset i.
RECURSIVE SpaceEnd(_, _)
SpaceEnd(t, i) ==
  IF i < Len(t) /\ IsWhitespace(t[i + 1]) THEN SpaceEnd(t, i + 1) ELSE i

\* End of the match of [^endings]+[endings]?\s* anchored at offset i,
\* where t[i + 1] is not a terminator.
MatchEnd(t, i) ==
  LET r == RunEnd(t, i)
      e == IF r < Len(t) /\ IsEnding(t[r + 1]) THEN r + 1 ELSE r
  IN  SpaceEnd(t, e)

\* regex.exec from lastIndex: the first offset >= from where the pattern
\* matches (a non-terminator character), or -1 when there is none.
RECURSIVE MatchIndex(_, _)
MatchIndex(t, from) ==
  IF from >= Len(t) THEN -1
  ELSE IF ~IsEnding(t[from + 1]) THEN from
  ELSE MatchIndex(t, from + 1)

\* The while loop of buildSentenceMap: the matches pushed and the last
\* regex.lastIndex recorded.
RECURSIVE MatchLoop(_, _, _)
MatchLoop(t, lastIndex, acc) ==
  LET start == MatchIndex(t, lastIndex) IN
  IF start = -1 THEN [sentences |-> acc, lastIndex |-> lastIndex]
  ELSE LET end == MatchEnd(t, start)
       IN  MatchLoop(t, end, Append(acc, Sentence(start, end, Substring(t, start, end))))

\* buildSentenceMap without the handling of text left after the last match.
buildSentenceMapMatchesOnly(t) ==
  IF IsBlank(t) THEN << >> ELSE MatchLoop(t, 0, << >>).sentences

buildSentenceMapOf(t) ==
  IF IsBlank(t) THEN << >>
  ELSE
    LET m == MatchLoop(t, 0, << >>)
        remaining == Substring(t, m.lastIndex, Len(t))
        withRest ==
          IF m.lastIndex < Len(t) /\ ~IsBlank(remaining)
          THEN Append(m.sentences, Sentence(m.lastIndex, Len(t), remaining))
          ELSE m.sentences
    IN  IF Len(withRest) = 0 /\ ~IsBlank(t)
        THEN <<Sentence(0, Len(t), t)>>
        ELSE withRest

\* buildSentenceMap for every text of the model, computed once.
SentenceMaps ==
  [t \in UNION {TextsOfLen(n) : n \in 0..MaxText} |-> buildSentenceMapOf(t)] @@ << >>

\* buildSentenceMap() when getPlainText() returns t.
buildSentenceMap(t) == SentenceMaps[t]

\* ------------------------------------------------ active-sentence resolution
\* The loop with the end boundary counted as inside the sentence.
RECURSIVE FindLoopInclusive(_, _, _)
FindLoopInclusive(sentences, caretOffset, i) ==
  IF i > Len(sentences) THEN -2
  ELSE IF caretOffset >= sentences[i].start /\ caretOffset <= sentences[i].end
       THEN i - 1
  ELSE FindLoopInclusive(sentences, caretOffset, i + 1)

\* The for loop of findActiveSentenceIndex from 1-based position i: the
\* 0-based index it returns, or -2 when it ends without returning.
RECURSIVE FindLoop(_, _, _)
FindLoop(sentences, caretOffset, i) ==
  IF i > Len(sentences) THEN -2
  ELSE IF caretOffset >= sentences[i].start /\ caretOffset < sentences[i].end
       THEN i - 1
  ELSE IF caretOffset = sentences[i].end /\ i - 1 < Len(sentences) - 1
       THEN i
  ELSE FindLoop(sentences, caretOffset, i + 1)

\* Returns the 0-based index, or -1.
findActiveSentenceIndex(sentences, caretOffset) ==
  LET r == FindLoop(sentences, caretOffset, 1) IN
  IF r # -2 THEN r
  ELSE IF Len(sentences) > 0 /\ caretOffset >= sentences[Len(sentences)].start
       THEN Len(sentences) - 1
  ELSE -1

\* ------------------------------------------------------- editing surface
\* The editor's content is a sequence of leaf nodes in document order.  A
\* node is either a bare text node (sid = NoId) or a sentence span created by
\* rebuildHighlights (sid: the value of data-sentence-id, el: which span of
\* the last rebuild it is, active: it carries the active class and
\* attribute).  wrapped says whether the container div is present.
NoId == << >>

TextNode(t) == [sid |-> NoId, el |-> 0, text |-> t, active |-> FALSE]

EmptyDom == [wrapped |-> FALSE, nodes |-> << >>]

RawDom(t) == [wrapped |-> FALSE, nodes |-> IF Len(t) = 0 THEN << >> ELSE <<TextNode(t)>>]

RECURSIVE ConcatNodes(_)
ConcatNodes(nodes) ==
  IF Len(nodes) = 0 THEN << >> ELSE Head(nodes).text \o ConcatNodes(Tail(nodes))

\* editor.textContent
getPlainText(dom) == ConcatNodes(dom.nodes)

\* Length of the serialisation of one node in editor.innerHTML:
\* <span data-sentence-id="sentence-ID" class="sentence[ sentence--active]"
\* [ data-sentence-active="true"]>TEXT</span>, or the bare text.
NodeHtmlLength(n) ==
  IF n.sid = NoId THEN Len(n.text)
  ELSE 24 + 9 + Len(n.sid) + 9 + 8 + (IF n.active THEN 17 ELSE 0) + 1
       + (IF n.active THEN 28 ELSE 0) + 1 + Len(n.text) + 7

RECURSIVE NodesHtmlLength(_)
NodesHtmlLength(nodes) ==
  IF Len(nodes) = 0 THEN 0
  ELSE NodeHtmlLength(Head(nodes)) + NodesHtmlLength(Tail(nodes))

\* editor.innerHTML.length; the container is <div class="paragraph"></div>.
InnerHtmlLength(dom) ==
  (IF dom.wrapped THEN 23 + 6 ELSE 0) + NodesHtmlLength(dom.nodes)

\* lastContentHash: null after construction, '' after an empty scan,
\* otherwise text length '-' markup length.
NullHash == [kind |-> "null", text |-> 0, html |-> 0]

EmptyHash == [kind |-> "empty", text |-> 0, html |-> 0]

getContentHash(dom) ==
  [kind |-> "hash", text |-> Len(getPlainText(dom)), html |-> InnerHtmlLength(dom)]

\* Offset of the first character of node k in the flattened text.
RECURSIVE NodeStart(_, _)
NodeStart(nodes, k) ==
  IF k <= 1 THEN 0 ELSE NodeStart(nodes, k - 1) + Len(nodes[k - 1].text)

\* The caret is [node |-> k, off |-> o]: inside the text of node k (k >= 1)
\* at local offset o, or on the editor element itself (k = 0) before (o = 0)
\* or after (o = 1) all of its content.
CaretAtStart == [node |-> 0, off |-> 0]

CaretAtEnd == [node |-> 0, off |-> 1]

CaretPositions(dom) ==
  {CaretAtStart, CaretAtEnd} \cup
  UNION {{[node |-> k, off |-> o] : o \in 0..Len(dom.nodes[k].text)} :
           k \in 1..Len(dom.nodes)}

\* getCaretOffset: length of the text from the editor's start to the caret.
getCaretOffset(dom, crt) ==
  IF crt.node = 0
  THEN (IF crt.off = 0 THEN 0 ELSE Len(getPlainText(dom)))
  ELSE NodeStart(dom.nodes, crt.node) + crt.off

\* The traverse of setCaretOffset: the first text node whose end offset
\* reaches the target; 0 when there is none.
RECURSIVE TraverseFrom(_, _, _, _)
TraverseFrom(nodes, k, currentOffset, targetOffset) ==
  IF k > Len(nodes) THEN [node |-> 0, off |-> 1]
  ELSE LET nextOffset == currentOffset + Len(nodes[k].text) IN
       IF targetOffset <= nextOffset
       THEN [node |-> k,
             off |-> IF targetOffset - currentOffset < 0 THEN 0
                     ELSE targetOffset - currentOffset]
       ELSE TraverseFrom(nodes, k + 1, nextOffset, targetOffset)

\* setCaretOffset without the fallback for a target past the last text node:
\* the new range stays where createRange put it, at the document's start.
setCaretOffsetNoFallback(dom, targetOffset) ==
  LET r == TraverseFrom(dom.nodes, 1, 0, targetOffset)
  IN  IF r.node = 0 THEN CaretAtStart ELSE r

\* setCaretOffset: the caret position it selects (end of content when the
\* target is past the last text node).
setCaretOffset(dom, targetOffset) == TraverseFrom(dom.nodes, 1, 0, targetOffset)

\* ------------------------------------------------------------ Map helpers
\* A Map is a sequence of entries with distinct ids, in insertion order.
MapHas(m, id) == \E i \in 1..Len(m) : m[i].id = id

MapGet(m, id) == m[CHOOSE i \in 1..Len(m) : m[i].id = id]

\* Map.prototype.set: overwrite in place, or append.
MapSet(m, e) ==
  IF MapHas(m, e.id)
  THEN [i \in 1..Len(m) |-> IF m[i].id = e.id THEN e ELSE m[i]]
  ELSE Append(m, e)

RECURSIVE MapOf(_, _)
MapOf(entries, acc) ==
  IF Len(entries) = 0 THEN acc
  ELSE MapOf(Tail(entries), MapSet(acc, Head(entries)))

\* Position (0-based) of id among the keys, -1 when absent: Array.indexOf.
KeyIndex(m, id) ==
  IF MapHas(m, id) THEN (CHOOSE i \in 1..Len(m) : m[i].id = id) - 1 ELSE -1

\* ------------------------------------------------------- render reconciler
\* The part of the instance and of the document that an update cycle reads
\* and writes, with the observer calls the cycle makes:
\*   dom, caret        the editor's content and the selection
\*   raf               offset of the caret restore requested with
\*                     requestAnimationFrame and not run yet, or -1
\*   sentenceMap, sentenceElements, activeSentenceId, lastContentHash
\*   sc, ac            arguments of the onSentenceChange /
\*                     onActiveSentenceChange calls made, in order
\*   blank, rebuilt    the path the scan took
Cycle(dom, crt, raf, sMap, sElems, active, hash) ==
  [dom |-> dom, caret |-> crt, raf |-> raf, sentenceMap |-> sMap,
   sentenceElements |-> sElems, activeSentenceId |-> active,
   lastContentHash |-> hash, sc |-> << >>, ac |-> << >>,
   blank |-> FALSE, rebuilt |-> FALSE]

\* Number of spans in the editor that carry the sentence-id attribute.
SpanCount(dom) == Cardinality({k \in 1..Len(dom.nodes) : dom.nodes[k].sid # NoId})

hasValidHighlights(st) == Len(st.sentenceElements) > 0 /\ SpanCount(st.dom) > 0

\* clearAllHighlights on the document: every span (its parent is the
\* container, never the editor) is unwrapped into its text node, then the
\* container, now without element children, is dissolved into the editor.
ClearedDom(dom) ==
  IF dom.wrapped
  THEN [wrapped |-> FALSE, nodes |-> [k \in 1..Len(dom.nodes) |-> TextNode(dom.nodes[k].text)]]
  ELSE dom

\* The selection while the spans and the container are taken apart: a
\* boundary point inside a span's text moves to the span when the text node
\* is taken out of it, to the container when the span is removed, and to the
\* editor, after the moved text nodes, when the container is removed.  A
\* selection on the editor before the container stays at the start, one
\* after it stays at the end.
clearAllHighlights(st) ==
  [st EXCEPT !.dom = ClearedDom(st.dom),
             !.caret = IF st.dom.wrapped /\ st.caret.node # 0 THEN CaretAtEnd
                       ELSE st.caret,
             !.sentenceElements = << >>]

\* classList.remove / removeAttribute (on = FALSE) or classList.add /
\* setAttribute (on = TRUE) on the span registered under id, if any; a span
\* no longer in the document changes nothing visible.
MarkElement(dom, sElems, id, on) ==
  IF MapHas(sElems, id)
  THEN [dom EXCEPT !.nodes =
          [k \in 1..Len(dom.nodes) |->
             IF dom.nodes[k].sid # NoId /\ dom.nodes[k].el = MapGet(sElems, id).el
             THEN [dom.nodes[k] EXCEPT !.active = on]
             ELSE dom.nodes[k]]]
  ELSE dom

\* The spans appended in the reverse order of the sentences.
RebuiltNodesReversed(sentences, activeIndex) ==
  [i \in 1..Len(sentences) |->
     [sid |-> sentences[Len(sentences) + 1 - i].id, el |-> i,
      text |-> sentences[Len(sentences) + 1 - i].text,
      active |-> (Len(sentences) - i = activeIndex /\ activeIndex >= 0)]]

\* The spans rebuildHighlights creates, one per sentence.
RebuiltNodes(sentences, activeIndex) ==
  [i \in 1..Len(sentences) |->
     [sid |-> sentences[i].id, el |-> i, text |-> sentences[i].text,
      active |-> (i - 1 = activeIndex /\ activeIndex >= 0)]]

RebuiltElements(sentences) ==
  MapOf([i \in 1..Len(sentences) |-> [id |-> sentences[i].id, el |-> i]], << >>)

\* rebuildHighlights(sentences, activeIndex, caretOffset), sentences not
\* empty.  Replacing the editor's children collapses the selection onto the
\* editor element, offset 0; the caret restore is deferred to the next
\* animation frame.
rebuildHighlights(st, sentences, activeIndex, caretOffset) ==
  [st EXCEPT
     !.sentenceElements = RebuiltElements(sentences),
     !.activeSentenceId =
        IF activeIndex >= 0 /\ activeIndex < Len(sentences)
        THEN sentences[activeIndex + 1].id ELSE st.activeSentenceId,
     !.dom = [wrapped |-> TRUE, nodes |-> RebuiltNodes(sentences, activeIndex)],
     !.caret = CaretAtStart,
     !.raf = caretOffset,
     !.rebuilt = TRUE]

\* The value handed to onActiveSentenceChange: this.sentenceMap.get(id) || null.
NoSentence == [id |-> NoId, text |-> << >>, start |-> -1, end |-> -1, isHeading |-> FALSE]

SentenceOrNull(sMap, id) == IF MapHas(sMap, id) THEN MapGet(sMap, id) ELSE NoSentence

\* Marking the new span without unmarking the old one.
MoveMarkerNoRemove(st, newActiveId) ==
  MarkElement(st.dom, st.sentenceElements, newActiveId, TRUE)

\* Moving the active marker: off the span of the old active id, onto the
\* span of the new one.
MoveMarker(st, newActiveId) ==
  LET off1 == IF st.activeSentenceId # NoId
              THEN MarkElement(st.dom, st.sentenceElements, st.activeSentenceId, FALSE)
              ELSE st.dom
  IN  MarkElement(off1, st.sentenceElements, newActiveId, TRUE)

updateActiveSentenceFromMap(st, sentences, activeIndex) ==
  IF activeIndex < 0 \/ activeIndex >= Len(sentences) THEN st
  ELSE LET newActiveId == sentences[activeIndex + 1].id IN
       [st EXCEPT
          !.dom = MoveMarker(st, newActiveId),
          !.activeSentenceId = newActiveId,
          !.ac = Append(st.ac, [index |-> activeIndex,
                                sentence |-> SentenceOrNull(st.sentenceMap, newActiveId)])]

\* The blank branch without 'this.activeSentenceId = null'.
scanEmptyKeepActive(st) ==
  [clearAllHighlights(st) EXCEPT
     !.sentenceMap = << >>,
     !.sentenceElements = << >>,
     !.lastContentHash = EmptyHash,
     !.blank = TRUE]

\* The branch of scanAndHighlight taken when the text is empty or blank.
scanEmpty(st) ==
  [clearAllHighlights(st) EXCEPT
     !.sentenceMap = << >>,
     !.sentenceElements = << >>,
     !.activeSentenceId = NoId,
     !.lastContentHash = EmptyHash,
     !.blank = TRUE]

\* The rest of scanAndHighlight without 'this.sentenceMap.clear()' before the
\* new sentences are stored.
scanNonEmptyNoClear(st) ==
  LET contentHash == getContentHash(st.dom)
      caretOffset == getCaretOffset(st.dom, st.caret)
      newSentences == buildSentenceMap(getPlainText(st.dom))
      activeIndex == findActiveSentenceIndex(newSentences, caretOffset)
      needsRebuild == \/ contentHash # st.lastContentHash
                      \/ Len(st.sentenceElements) = 0
                      \/ ~hasValidHighlights(st)
      shown == IF needsRebuild
               THEN [rebuildHighlights(st, newSentences, activeIndex, caretOffset)
                       EXCEPT !.lastContentHash = contentHash]
               ELSE updateActiveSentenceFromMap(st, newSentences, activeIndex)
      stored == MapOf(newSentences, st.sentenceMap)
  IN  IF Len(newSentences) = 0 THEN st
      ELSE [shown EXCEPT !.sentenceMap = stored, !.sc = Append(shown.sc, stored)]

\* The rest of scanAndHighlight with onSentenceChange called before the new
\* sentences are stored: it is handed the collection of the previous scan.
scanNonEmptyNotifyBefore(st) ==
  LET contentHash == getContentHash(st.dom)
      caretOffset == getCaretOffset(st.dom, st.caret)
      newSentences == buildSentenceMap(getPlainText(st.dom))
      activeIndex == findActiveSentenceIndex(newSentences, caretOffset)
      needsRebuild == \/ contentHash # st.lastContentHash
                      \/ Len(st.sentenceElements) = 0
                      \/ ~hasValidHighlights(st)
      shown == IF needsRebuild
               THEN [rebuildHighlights(st, newSentences, activeIndex, caretOffset)
                       EXCEPT !.lastContentHash = contentHash]
               ELSE updateActiveSentenceFromMap(st, newSentences, activeIndex)
      stored == MapOf(newSentences, << >>)
  IN  IF Len(newSentences) = 0 THEN st
      ELSE [shown EXCEPT !.sentenceMap = stored,
                         !.sc = Append(shown.sc, st.sentenceMap)]

\* The rest of scanAndHighlight.  scrollCaretToCenter, called last, changes
\* neither the text, the markup length nor the caret offset.
scanNonEmpty(st) ==
  LET contentHash == getContentHash(st.dom)
      caretOffset == getCaretOffset(st.dom, st.caret)
      newSentences == buildSentenceMap(getPlainText(st.dom))
      activeIndex == findActiveSentenceIndex(newSentences, caretOffset)
      needsRebuild == \/ contentHash # st.lastContentHash
                      \/ Len(st.sentenceElements) = 0
                      \/ ~hasValidHighlights(st)
      shown == IF needsRebuild
               THEN [rebuildHighlights(st, newSentences, activeIndex, caretOffset)
                       EXCEPT !.lastContentHash = contentHash]
               ELSE updateActiveSentenceFromMap(st, newSentences, activeIndex)
      stored == MapOf(newSentences, << >>)
  IN  IF Len(newSentences) = 0 THEN st
      ELSE [shown EXCEPT !.sentenceMap = stored, !.sc = Append(shown.sc, stored)]

scanAndHighlight(st) ==
  IF IsBlank(getPlainText(st.dom)) THEN scanEmpty(st) ELSE scanNonEmpty(st)

\* A navigation-only recomputation that runs the whole scan.
updateActiveSentenceRescan(st) == scanAndHighlight(st)

\* updateActiveSentence: the navigation-only recomputation.
updateActiveSentence(st) ==
  IF Len(st.sentenceMap) = 0 THEN st
  ELSE
    LET caretOffset == getCaretOffset(st.dom, st.caret)
        activeIndex == findActiveSentenceIndex(st.sentenceMap, caretOffset)
    IN  IF activeIndex < 0 THEN st
        ELSE LET newActiveId == st.sentenceMap[activeIndex + 1].id IN
             IF newActiveId = st.activeSentenceId THEN st
             ELSE [st EXCEPT
                     !.dom = MoveMarker(st, newActiveId),
                     !.activeSentenceId = newActiveId,
                     !.ac = Append(st.ac, [index |-> activeIndex,
                                           sentence |-> SentenceOrNull(st.sentenceMap, newActiveId)])]

\* ------------------------------------------------------------ public getters
getSentences(sMap) == sMap

getActiveSentence(sMap, active) ==
  IF active = NoId THEN NoSentence ELSE SentenceOrNull(sMap, active)

\* An index getter that reports the first position for a reference that is
\* not a key of the collection.
getActiveSentenceIndexOrFirst(sMap, active) ==
  IF active = NoId THEN -1
  ELSE IF MapHas(sMap, active) THEN KeyIndex(sMap, active) ELSE 0

getActiveSentenceIndex(sMap, active) ==
  IF active = NoId THEN -1 ELSE KeyIndex(sMap, active)

\* ---------------------------------------------------------------- scheduler
\* A timer is [kind, left, src, held]: kind "scan" runs scanAndHighlight and
\* "active" runs updateActiveSentence; left is the time until it is due; src
\* names the code that scheduled it; held says that this.updateTimer refers
\* to it.
Timer(kind, delay, src, held) == [kind |-> kind, left |-> delay, src |-> src, held |-> held]

\* clearTimeout(this.updateTimer)
clearTimeout(ts) == {t \in ts : ~t.held}

\* this.updateTimer = setTimeout(callback, delay)
setUpdateTimer(ts, kind, delay, src) ==
  {[t EXCEPT !.held = FALSE] : t \in ts} \cup {Timer(kind, delay, src, TRUE)}

\* handleInput, on the document as the input event finds it.
InputDelay(dom, crt) ==
  LET text == getPlainText(dom)
      caretOffset == getCaretOffset(dom, crt)
  IN  IF caretOffset > 1 /\ caretOffset - 1 <= Len(text) /\ IsEnding(text[caretOffset - 1])
      THEN FastPathDelay ELSE updateDebounce

\* handleInput without its clearTimeout.
handleInputNoClear(ts, dom, crt) ==
  setUpdateTimer(ts, "scan", InputDelay(dom, crt), "input")

handleInput(ts, dom, crt) ==
  setUpdateTimer(clearTimeout(ts), "scan", InputDelay(dom, crt), "input")

\* The keydown listener of attachEvents.
onKeydown(ts, key) ==
  IF IsEnding(key)
  THEN setUpdateTimer(clearTimeout(ts), "scan", KeydownDelay, "keydown")
  ELSE ts

handleNavigation(ts) ==
  setUpdateTimer(clearTimeout(ts), "active", updateThrottle, "nav")

\* handleCaretMove without the test of the selection's anchor.
handleCaretMoveNoCheck(ts, anchorInside) ==
  setUpdateTimer(clearTimeout(ts), "active", updateThrottle, "nav")

\* handleCaretMove; anchorInside is this.editor.contains(anchorNode).
handleCaretMove(ts, anchorInside) ==
  IF ~anchorInside THEN ts
  ELSE setUpdateTimer(clearTimeout(ts), "active", updateThrottle, "nav")

\* The listeners attachEvents registers, and those destroy removes.
AllListeners == {"input", "keydown", "click", "keyup", "selectionchange", "focus"}

RemovedListeners == {"input", "click", "selectionchange"}

\* ------------------------------------------------------------- observation
\* What a call of the public interface was given and returned, the focus
\* flag and focus-off class it found, and (chain) the flag found by the focus
\* call made just before it, if any: none for the other steps.
NoCall ==
  [arg |-> "none", ret |-> "none", flag |-> FALSE, marker |-> FALSE, chain |-> "none"]

NoEvent ==
  [op |-> "signal", src |-> "none", blank |-> FALSE, rebuilt |-> FALSE,
   prevCount |-> 0, sc |-> << >>, ac |-> << >>, threw |-> FALSE, call |-> NoCall]

CycleEvent(op, src, st) ==
  [op |-> op, src |-> src, blank |-> st.blank, rebuilt |-> st.rebuilt,
   prevCount |-> Len(sentenceMap), sc |-> st.sc, ac |-> st.ac, threw |-> FALSE,
   call |-> NoCall]

\* The bookkeeping is kept only in the specification of the debounce claims
\* (on = TRUE).
NoBurst ==
  [on |-> FALSE, gap |-> updateDebounce, run |-> 0, runScans |-> 0,
   chain |-> 0, chainScans |-> 0]

NewBurst == [NoBurst EXCEPT !.on = TRUE]

Min(a, b) == IF a < b THEN a ELSE b

InputPending(ts) == \E t \in ts : t.src = "input"

\* An input signal arrives: it continues the run when it comes within the
\* debounce window of the previous one, and the chain when the scan the
\* previous one scheduled has not run yet.
BurstOnInput(b, ts) ==
  LET inRun == b.run >= 1 /\ b.gap < updateDebounce
      inChain == b.chain >= 1 /\ InputPending(ts)
  IN  IF ~b.on THEN b ELSE
      [on |-> TRUE, gap |-> 0,
       run |-> IF inRun THEN Min(b.run + 1, MaxRun) ELSE 1,
       runScans |-> IF inRun THEN b.runScans ELSE 0,
       chain |-> IF inChain THEN Min(b.chain + 1, MaxRun) ELSE 1,
       chainScans |-> IF inChain THEN b.chainScans ELSE 0]

\* Another signal or a call of the public interface ends the run.
BurstReset(b) == IF b.on THEN NewBurst ELSE b

\* A scan scheduled by an input signal runs.
BurstOnScan(b) ==
  IF ~b.on THEN b ELSE
  [b EXCEPT !.runScans = IF b.run >= 1 THEN Min(b.runScans + 1, 2) ELSE 0,
            !.chainScans = IF b.chain >= 1 THEN Min(b.chainScans + 1, 2) ELSE 0]

\* ------------------------------------------------------------ the document
\* The text node and local offset at which the browser edits for a caret.
EditPoint(dom, crt) ==
  IF crt.node # 0 THEN crt
  ELSE IF crt.off = 0 THEN [node |-> 1, off |-> 0]
  ELSE [node |-> Len(dom.nodes), off |-> Len(dom.nodes[Len(dom.nodes)].text)]

InsertAt(t, o, c) == SubSeq(t, 1, o) \o <<c>> \o SubSeq(t, o + 1, Len(t))

\* The browser inserts the typed character at the caret.
InsertChar(dom, crt, c) ==
  IF Len(dom.nodes) = 0 THEN RawDom(<<c>>)
  ELSE LET p == EditPoint(dom, crt)
       IN  [dom EXCEPT !.nodes[p.node].text = InsertAt(dom.nodes[p.node].text, p.off, c)]

CaretAfterInsert(dom, crt) ==
  IF Len(dom.nodes) = 0 THEN [node |-> 1, off |-> 1]
  ELSE LET p == EditPoint(dom, crt) IN [node |-> p.node, off |-> p.off + 1]

\* The node holding the character at flat offset i.
NodeOfOffset(nodes, i) ==
  CHOOSE k \in 1..Len(nodes) :
    NodeStart(nodes, k) <= i /\ i < NodeStart(nodes, k) + Len(nodes[k].text)

RemoveAt(seq, k) == SubSeq(seq, 1, k - 1) \o SubSeq(seq, k + 1, Len(seq))

\* The browser deletes the character before the caret (flat offset pos > 0);
\* an emptied node and an emptied container are removed with it.
DeleteBefore(dom, pos) ==
  LET k == NodeOfOffset(dom.nodes, pos - 1)
      o == pos - 1 - NodeStart(dom.nodes, k)
      cut == RemoveAt(dom.nodes[k].text, o + 1)
      nodes == IF Len(cut) = 0 THEN RemoveAt(dom.nodes, k)
               ELSE [dom.nodes EXCEPT ![k].text = cut]
  IN  IF Len(nodes) = 0 THEN EmptyDom ELSE [dom EXCEPT !.nodes = nodes]

CaretAfterDelete(dom, pos) ==
  LET after == DeleteBefore(dom, pos) IN
  IF Len(after.nodes) = 0 THEN CaretAtStart
  ELSE TraverseFrom(after.nodes, 1, 0, pos - 1)

\* ------------------------------------------------------------------ actions
CurrentCycle ==
  Cycle(editorDom, caret, rafRestore, sentenceMap, sentenceElements,
        activeSentenceId, lastContentHash)

\* The instance and document after an update cycle that ended in st.
Commit(st) ==
  /\ editorDom' = st.dom
  /\ caret' = st.caret
  /\ rafRestore' = st.raf
  /\ sentenceMap' = st.sentenceMap
  /\ sentenceElements' = st.sentenceElements
  /\ activeSentenceId' = st.activeSentenceId
  /\ lastContentHash' = st.lastContentHash

instanceVars == <<rafRestore, sentenceMap, sentenceElements, activeSentenceId,
                  lastContentHash, isInitialized, focusModeEnabled, editorClasses,
                  listeners, life>>

\* What the input event does after the browser changed the content.
AfterInput(ts, dom, crt) ==
  /\ timers' = IF "input" \in listeners THEN handleInput(ts, dom, crt) ELSE ts
  /\ burst' = IF "input" \in listeners THEN BurstOnInput(burst, timers)
              ELSE BurstReset(burst)
  /\ ev' = NoEvent

\* A key goes down in the editor: the keydown listener alone.  The browser
\* dispatches input afterwards only when the key inserts a character.
Keydown(key) ==
  /\ tokPc = "off"
  /\ timers' = IF "keydown" \in listeners THEN onKeydown(timers, key) ELSE timers
  /\ burst' = BurstReset(burst)
  /\ ev' = NoEvent
  /\ UNCHANGED <<editorDom, caret, instanceVars, tokVars>>

\* Character c is inserted at the caret (typed after its keydown, pasted or
\* composed): the insertion, then input.
TypeChar(c) ==
  /\ tokPc = "off"
  /\ Len(getPlainText(editorDom)) < MaxLen
  /\ editorDom' = InsertChar(editorDom, caret, c)
  /\ caret' = CaretAfterInsert(editorDom, caret)
  /\ AfterInput(timers, InsertChar(editorDom, caret, c), CaretAfterInsert(editorDom, caret))
  /\ UNCHANGED <<instanceVars, tokVars>>

\* The user deletes the character before the caret: the deletion, then input.
Backspace ==
  /\ tokPc = "off"
  /\ getCaretOffset(editorDom, caret) > 0
  /\ editorDom' = DeleteBefore(editorDom, getCaretOffset(editorDom, caret))
  /\ caret' = CaretAfterDelete(editorDom, getCaretOffset(editorDom, caret))
  /\ AfterInput(timers, DeleteBefore(editorDom, getCaretOffset(editorDom, caret)),
                CaretAfterDelete(editorDom, getCaretOffset(editorDom, caret)))
  /\ UNCHANGED <<instanceVars, tokVars>>

\* The user selects everything and deletes it: the editor is left without
\* content, then input.
ClearAll ==
  /\ tokPc = "off"
  /\ Len(editorDom.nodes) > 0
  /\ editorDom' = EmptyDom
  /\ caret' = CaretAtStart
  /\ AfterInput(timers, EmptyDom, CaretAtStart)
  /\ UNCHANGED <<instanceVars, tokVars>>

\* A navigation-only signal handled by handler (when its listener is still
\* attached) after the browser moved the caret to crt.
NavSignal(name, crt, ts) ==
  /\ tokPc = "off"
  /\ caret' = crt
  /\ timers' = IF name \in listeners THEN ts ELSE timers
  /\ burst' = BurstReset(burst)
  /\ ev' = NoEvent
  /\ UNCHANGED <<editorDom, instanceVars, tokVars>>

\* A pointer click places the caret and is handled by handleNavigation.
Click(crt) == NavSignal("click", crt, handleNavigation(timers))

\* A navigation key moves the caret; its keyup is handled by handleNavigation.
KeyupNavigation(crt) == NavSignal("keyup", crt, handleNavigation(timers))

\* The editor receives focus.
Focus == NavSignal("focus", caret, handleNavigation(timers))

\* The document reports a selection change inside the editor.
SelectionChange == NavSignal("selectionchange", caret, handleCaretMove(timers, TRUE))

\* The document reports a selection change whose anchor is outside the
\* editor (or no selection at all); caret stays the position the selection
\* returns to in the editor.
SelectionChangeOutside ==
  /\ tokPc = "off"
  /\ "selectionchange" \in listeners
  /\ timers' = handleCaretMove(timers, FALSE)
  /\ burst' = BurstReset(burst)
  /\ ev' = [NoEvent EXCEPT !.src = "selectionOutside"]
  /\ UNCHANGED <<editorDom, caret, instanceVars, tokVars>>

\* Time until the earliest outstanding timer is due.
NextDue(ts) == (CHOOSE t \in ts : \A u \in ts : t.left <= u.left).left

\* Time passes until the earliest outstanding timer is due (a due timer runs
\* before time passes further), or, with no timer outstanding, for longer
\* than the debounce window.
Tick ==
  /\ tokPc = "off"
  /\ \A t \in timers : t.left > 0
  /\ timers # {} \/ (burst.on /\ burst.gap < updateDebounce)
  /\ timers' = {[t EXCEPT !.left = t.left - NextDue(timers)] : t \in timers}
  /\ burst' = IF ~burst.on THEN burst
              ELSE IF timers = {} THEN [burst EXCEPT !.gap = updateDebounce]
              ELSE [burst EXCEPT !.gap = Min(burst.gap + NextDue(timers), updateDebounce)]
  /\ ev' = NoEvent
  /\ UNCHANGED <<editorDom, caret, instanceVars, tokVars>>

\* A due timer runs its callback.
FireTimer(t) ==
  /\ tokPc = "off"
  /\ t \in timers
  /\ t.left = 0
  /\ timers' = timers \ {t}
  /\ \E st \in {IF t.kind = "scan" THEN scanAndHighlight(CurrentCycle)
                 ELSE updateActiveSentence(CurrentCycle)} :
       /\ Commit(st)
       /\ ev' = CycleEvent(t.kind, t.src, st)
  /\ burst' = IF t.kind = "scan" /\ t.src = "input" THEN BurstOnScan(burst) ELSE burst
  /\ UNCHANGED <<isInitialized, focusModeEnabled, editorClasses, listeners, life, tokVars>>

\* The animation frame runs the caret restore requested by the last rebuild.
AnimationFrame ==
  /\ tokPc = "off"
  /\ rafRestore >= 0
  /\ caret' = setCaretOffset(editorDom, rafRestore)
  /\ rafRestore' = -1
  /\ ev' = NoEvent
  /\ UNCHANGED <<editorDom, timers, sentenceMap, sentenceElements, activeSentenceId,
                 lastContentHash, isInitialized, focusModeEnabled, editorClasses,
                 listeners, life, burst, tokVars>>

\* The public update(): a synchronous scan.
Update ==
  /\ tokPc = "off"
  /\ life = "live"
  /\ \E st \in {scanAndHighlight(CurrentCycle)} :
       /\ Commit(st)
       /\ ev' = CycleEvent("scan", "update", st)
  /\ burst' = BurstReset(burst)
  /\ UNCHANGED <<timers, isInitialized, focusModeEnabled, editorClasses, listeners,
                 life, tokVars>>

\* destroy() stops at 'this.removeSentenceHighlight(id)', a method the class
\* does not define, as soon as the sentence collection has an entry.
DestroyThrows(sMap) == Len(sMap) > 0

\* The public destroy().
Destroy ==
  /\ tokPc = "off"
  /\ life = "live"
  /\ timers' = clearTimeout(timers)
  /\ listeners' = listeners \ RemovedListeners
  /\ IF DestroyThrows(sentenceMap)
     THEN /\ life' = "failed"
          /\ ev' = [NoEvent EXCEPT !.op = "destroy", !.threw = TRUE,
                                   !.prevCount = Len(sentenceMap)]
          /\ UNCHANGED <<sentenceMap, sentenceElements, activeSentenceId,
                         editorClasses, isInitialized>>
     ELSE /\ life' = "destroyed"
          /\ ev' = [NoEvent EXCEPT !.op = "destroy"]
          /\ sentenceMap' = << >>
          /\ sentenceElements' = << >>
          /\ activeSentenceId' = NoId
          /\ editorClasses' = editorClasses \ {"paragraph", "sentence-highlighter-focus-off"}
          /\ isInitialized' = FALSE
  /\ burst' = BurstReset(burst)
  /\ UNCHANGED <<editorDom, caret, rafRestore, lastContentHash, focusModeEnabled, tokVars>>

\* A JavaScript boolean as the model records arguments and return values.
BoolValue(b) == IF b THEN "true" ELSE "false"

FocusOffClass == "sentence-highlighter-focus-off"

\* setFocusMode that never removes the focus-off class.
setFocusModeClassesAddOnly(classes, enabled) == classes \cup {FocusOffClass}

\* The editor's classes after setFocusMode(enabled).
setFocusModeClasses(classes, enabled) ==
  IF enabled THEN classes \ {FocusOffClass} ELSE classes \cup {FocusOffClass}

\* What toggleFocusMode() returns: it has no return statement.
toggleFocusModeReturn(enabled) == "undefined"

FocusCall(op, arg, ret) ==
  [NoEvent EXCEPT !.op = op,
                  !.call = [arg |-> arg, ret |-> ret, flag |-> focusModeEnabled,
                            marker |-> FocusOffClass \in editorClasses,
                            chain |-> IF ev.op \in {"setFocusMode", "toggleFocusMode"}
                                      THEN BoolValue(ev.call.flag) ELSE "none"]]

\* The public setFocusMode(enabled).
SetFocusMode(enabled) ==
  /\ tokPc = "off"
  /\ life = "live"
  /\ focusModeEnabled' = enabled
  /\ editorClasses' = setFocusModeClasses(editorClasses, enabled)
  /\ ev' = FocusCall("setFocusMode", BoolValue(enabled), "undefined")
  /\ burst' = BurstReset(burst)
  /\ UNCHANGED <<editorDom, caret, timers, rafRestore, sentenceMap, sentenceElements,
                 activeSentenceId, lastContentHash, isInitialized, listeners, life,
                 tokVars>>

\* The public toggleFocusMode(): setFocusMode(!this.focusModeEnabled).
ToggleFocusMode ==
  /\ tokPc = "off"
  /\ life = "live"
  /\ focusModeEnabled' = ~focusModeEnabled
  /\ editorClasses' = setFocusModeClasses(editorClasses, ~focusModeEnabled)
  /\ ev' = FocusCall("toggleFocusMode", "none", toggleFocusModeReturn(~focusModeEnabled))
  /\ burst' = BurstReset(burst)
  /\ UNCHANGED <<editorDom, caret, timers, rafRestore, sentenceMap, sentenceElements,
                 activeSentenceId, lastContentHash, isInitialized, listeners, life,
                 tokVars>>

\* Characters the user types: a letter and a terminator; a blank too in the
\* specification of the scans of blank text.
TypedChars == {"a", "."}

BlankChars == {"a", " ", "."}

\* Contents the editor may hold when the instance is constructed.
InitialTexts == {<< >>, <<"a", ".">>}

\* No call of generateSentenceId recorded.
NoIdCall == [start |-> 0, end |-> 0, text |-> << >>, isHeading |-> FALSE, id |-> << >>]

IdOff == idA = NoIdCall /\ idB = NoIdCall

TokOff ==
  /\ tokText = << >>
  /\ tokCaret = 0
  /\ tokSentences = << >>
  /\ tokIndex = -1
  /\ tokPc = "off"
  /\ IdOff

\* The state the constructor leaves (constructor and init), for a
\* contenteditable element holding plain text and no selection.
Init ==
  /\ TokOff
  /\ editorDom \in {RawDom(t) : t \in InitialTexts}
  /\ caret = CaretAtStart
  /\ editorClasses = {"paragraph"}
  /\ listeners = AllListeners
  /\ timers = {Timer("scan", InitDelay, "init", FALSE)}
  /\ rafRestore = -1
  /\ sentenceMap = << >>
  /\ sentenceElements = << >>
  /\ activeSentenceId = NoId
  /\ lastContentHash = NullHash
  /\ isInitialized = TRUE
  /\ focusModeEnabled = TRUE
  /\ life = "live"
  /\ ev = NoEvent
  /\ burst = NoBurst

\* What 'new SentenceHighlighter(editorElement, options)' can be given: no
\* element (or a value that is no node), an element that is not
\* contenteditable, a contenteditable element.
Surfaces == {"missing", "notEditable", "editable"}

\* A constructor that validates isContentEditable only after init().
constructInitFirst(surface, enableFocusMode) ==
  [threw |-> surface # "editable",
   classes |-> IF surface = "missing" THEN {}
               ELSE {"paragraph"} \cup (IF enableFocusMode THEN {} ELSE {FocusOffClass}),
   listeners |-> IF surface = "missing" THEN {} ELSE AllListeners,
   timers |-> IF surface = "missing" THEN {}
              ELSE {Timer("scan", InitDelay, "init", FALSE)},
   isInitialized |-> surface # "missing",
   focusModeEnabled |-> surface # "missing" /\ enableFocusMode]

\* The constructor and init(): whether it throws, and what it leaves on the
\* editor element and in the instance.
construct(surface, enableFocusMode) ==
  IF surface = "missing" \/ surface = "notEditable"
  THEN [threw |-> TRUE, classes |-> {}, listeners |-> {}, timers |-> {},
        isInitialized |-> FALSE, focusModeEnabled |-> FALSE]
  ELSE [threw |-> FALSE,
        classes |-> {"paragraph"} \cup (IF enableFocusMode THEN {} ELSE {FocusOffClass}),
        listeners |-> AllListeners,
        timers |-> {Timer("scan", InitDelay, "init", FALSE)},
        isInitialized |-> TRUE,
        focusModeEnabled |-> enableFocusMode]

\* new SentenceHighlighter(surface, {enableFocusMode}).
Construct(surface, enableFocusMode) ==
  /\ tokPc = "off"
  /\ life = "new"
  /\ \E r \in {construct(surface, enableFocusMode)} :
       /\ editorClasses' = editorClasses \cup r.classes
       /\ listeners' = r.listeners
       /\ timers' = r.timers
       /\ isInitialized' = r.isInitialized
       /\ focusModeEnabled' = r.focusModeEnabled
       /\ life' = IF r.threw THEN "rejected" ELSE "live"
       /\ ev' = [NoEvent EXCEPT !.op = "construct", !.threw = r.threw,
                                !.call.arg = surface]
  /\ UNCHANGED <<editorDom, caret, rafRestore, sentenceMap, sentenceElements,
                 activeSentenceId, lastContentHash, burst, tokVars>>

\* Before the constructor is called: an editor element and no instance.
InitNew ==
  /\ TokOff
  /\ editorDom \in {RawDom(t) : t \in InitialTexts}
  /\ caret = CaretAtStart
  /\ editorClasses = {}
  /\ listeners = {}
  /\ timers = {}
  /\ rafRestore = -1
  /\ sentenceMap = << >>
  /\ sentenceElements = << >>
  /\ activeSentenceId = NoId
  /\ lastContentHash = NullHash
  /\ isInitialized = FALSE
  /\ focusModeEnabled = FALSE
  /\ life = "new"
  /\ ev = NoEvent
  /\ burst = NoBurst

\* The instance is not part of the tokenizer specifications.
SysOff ==
  /\ editorDom = EmptyDom
  /\ caret = CaretAtStart
  /\ editorClasses = {}
  /\ listeners = {}
  /\ timers = {}
  /\ rafRestore = -1
  /\ sentenceMap = << >>
  /\ sentenceElements = << >>
  /\ activeSentenceId = NoId
  /\ lastContentHash = NullHash
  /\ isInitialized = FALSE
  /\ focusModeEnabled = FALSE
  /\ life = "off"
  /\ ev = NoEvent
  /\ burst = NoBurst

TextCarets == {c \in CaretPositions(editorDom) : c.node # 0 \/ Len(editorDom.nodes) = 0}

Next ==
  \/ \E key \in TypedChars : Keydown(key)
  \/ \E c \in TypedChars : TypeChar(c)
  \/ ClearAll
  \/ \E crt \in TextCarets : Click(crt)
  \/ \E crt \in TextCarets : KeyupNavigation(crt)
  \/ Focus
  \/ SelectionChange
  \/ Tick
  \/ \E t \in timers : FireTimer(t)
  \/ AnimationFrame
  \/ Update

\* The life cycle: the same, and destroy().
NextLife == Next \/ Destroy

\* Scans of blank text: content changes (blanks included) and scans.
NextBlank ==
  \/ \E c \in BlankChars : TypeChar(c)
  \/ Backspace
  \/ ClearAll
  \/ Tick
  \/ \E t \in timers : FireTimer(t)
  \/ AnimationFrame
  \/ Update

\* The debounce claims: input signals only, with the bookkeeping of runs.
InitInput ==
  /\ TokOff
  /\ editorDom \in {RawDom(t) : t \in InitialTexts}
  /\ caret = CaretAtStart
  /\ editorClasses = {"paragraph"}
  /\ listeners = AllListeners
  /\ timers = {Timer("scan", InitDelay, "init", FALSE)}
  /\ rafRestore = -1
  /\ sentenceMap = << >>
  /\ sentenceElements = << >>
  /\ activeSentenceId = NoId
  /\ lastContentHash = NullHash
  /\ isInitialized = TRUE
  /\ focusModeEnabled = TRUE
  /\ life = "live"
  /\ ev = NoEvent
  /\ burst = NewBurst

NextInput ==
  \/ \E c \in TypedChars : TypeChar(c)
  \/ Backspace
  \/ ClearAll
  \/ Tick
  \/ \E t \in timers : FireTimer(t)
  \/ AnimationFrame

\* The public interface around the scans: construction and focus mode.
NextApi ==
  \/ \E surface \in Surfaces : \E f \in BOOLEAN : Construct(surface, f)
  \/ \E enabled \in BOOLEAN : SetFocusMode(enabled)
  \/ ToggleFocusMode
  \/ SelectionChangeOutside
  \/ \E key \in TypedChars : Keydown(key)
  \/ \E c \in TypedChars : TypeChar(c)
  \/ Tick
  \/ \E t \in timers : FireTimer(t)
  \/ AnimationFrame

\* ----------------------------------------------- tokenizer specifications
TokTexts == UNION {TextsOfLen(n) : n \in 0..MaxTokLen}

\* Non-empty intervals [start, end) within 0..MaxOff.
Intervals == {p \in (0..MaxOff) \X (0..MaxOff) : p[1] < p[2]}

Disjoint(p, q) == p[2] <= q[1] \/ q[2] <= p[1]

\* Sets of pairwise non-overlapping intervals; each is one ordered sequence.
IntervalSets ==
  {S \in SUBSET Intervals :
     S # {} /\ \A p \in S : \A q \in S : p = q \/ Disjoint(p, q)}

RECURSIVE SortedIntervals(_)
SortedIntervals(S) ==
  IF S = {} THEN << >>
  ELSE LET first == CHOOSE p \in S : \A q \in S : p[1] <= q[1]
       IN  <<first>> \o SortedIntervals(S \ {first})

Letters(n) == [i \in 1..n |-> "a"]

\* A sentence array with the given intervals (text: letters only).
SentencesOfIntervals(S) ==
  LET iv == SortedIntervals(S)
  IN  [i \in 1..Len(iv) |-> Sentence(iv[i][1], iv[i][2], Letters(iv[i][2] - iv[i][1]))]

\* buildSentenceMap followed by findActiveSentenceIndex on drawn inputs.
TokInit ==
  /\ tokText \in TokTexts
  /\ tokCaret \in 0..Len(tokText)
  /\ tokSentences = << >>
  /\ tokIndex = -1
  /\ tokPc = "in"
  /\ IdOff
  /\ SysOff

Tokenize ==
  /\ tokPc = "in"
  /\ tokSentences' = buildSentenceMap(tokText)
  /\ tokIndex' = findActiveSentenceIndex(buildSentenceMap(tokText), tokCaret)
  /\ tokPc' = "out"
  /\ UNCHANGED <<tokText, tokCaret, idA, idB, sysVars>>

\* findActiveSentenceIndex on drawn ordered, non-overlapping sentence arrays.
FindInit ==
  /\ tokText = << >>
  /\ tokSentences \in {SentencesOfIntervals(S) : S \in IntervalSets}
  /\ tokCaret \in 0..(MaxOff + 1)
  /\ tokIndex = -1
  /\ tokPc = "in"
  /\ IdOff
  /\ SysOff

Find ==
  /\ tokPc = "in"
  /\ tokIndex' = findActiveSentenceIndex(tokSentences, tokCaret)
  /\ tokPc' = "out"
  /\ UNCHANGED <<tokText, tokCaret, tokSentences, idA, idB, sysVars>>

\* generateSentenceId called twice with the same start and isHeading on two
\* texts around the length of 20: a base of 18 letters and a tail each.
IdBase == [i \in 1..18 |-> "a"]

IdTexts == {IdBase \o tail : tail \in UNION {TextsOfLen(n) : n \in 0..MaxTail}}

IdCall(start, text, isHeading) ==
  [start |-> start, end |-> start + Len(text), text |-> text,
   isHeading |-> isHeading, id |-> << >>]

IdInit ==
  /\ tokText = << >>
  /\ tokCaret = 0
  /\ tokSentences = << >>
  /\ tokIndex = -1
  /\ tokPc = "in"
  /\ \E start \in 0..1 : \E isHeading \in BOOLEAN :
       /\ idA \in {IdCall(start, t, isHeading) : t \in IdTexts}
       /\ idB \in {IdCall(start, t, isHeading) : t \in IdTexts}
  /\ SysOff

GenerateIds ==
  /\ tokPc = "in"
  /\ idA.id = << >>
  /\ idA' = [idA EXCEPT !.id = generateSentenceId(idA.start, idA.end, idA.text, idA.isHeading)]
  /\ idB' = [idB EXCEPT !.id = generateSentenceId(idB.start, idB.end, idB.text, idB.isHeading)]
  /\ tokPc' = "out"
  /\ UNCHANGED <<tokText, tokCaret, tokSentences, tokIndex, sysVars>>

\* setCaretOffset followed by getCaretOffset on drawn documents: plain text,
\* or the container and spans a rebuild produces for the text, with the caret
\* anywhere; tokCaret is the target offset, tokIndex the offset measured.
EditorTexts == UNION {TextsOfLen(n) : n \in 0..MaxLen}

RebuiltDom(t) ==
  [wrapped |-> TRUE, nodes |-> RebuiltNodes(buildSentenceMap(t), -1)]

CaretDoms ==
  {RawDom(t) : t \in EditorTexts}
    \cup {RebuiltDom(t) : t \in {u \in EditorTexts : ~IsBlank(u)}}

CaretInit ==
  /\ tokText = << >>
  /\ tokSentences = << >>
  /\ tokIndex = -1
  /\ tokPc = "in"
  /\ IdOff
  /\ editorDom \in CaretDoms
  /\ caret \in CaretPositions(editorDom)
  /\ tokCaret \in 0..(MaxLen + 2)
  /\ editorClasses = {}
  /\ listeners = {}
  /\ timers = {}
  /\ rafRestore = -1
  /\ sentenceMap = << >>
  /\ sentenceElements = << >>
  /\ activeSentenceId = NoId
  /\ lastContentHash = NullHash
  /\ isInitialized = FALSE
  /\ focusModeEnabled = FALSE
  /\ life = "off"
  /\ ev = NoEvent
  /\ burst = NoBurst

caretFrame == <<tokText, tokSentences, idA, idB, editorDom, editorClasses, listeners,
                timers, rafRestore, sentenceMap, sentenceElements, activeSentenceId,
                lastContentHash, isInitialized, focusModeEnabled, life, ev, burst>>

\* setCaretOffset(tokCaret), then getCaretOffset().
SetCaret ==
  /\ tokPc = "in"
  /\ caret' = setCaretOffset(editorDom, tokCaret)
  /\ tokIndex' = getCaretOffset(editorDom, caret')
  /\ tokPc' = "set"
  /\ UNCHANGED <<tokCaret, caretFrame>>

\* setCaretOffset(getCaretOffset()), then getCaretOffset().
RestoreCaret ==
  /\ tokPc = "in"
  /\ tokCaret' = getCaretOffset(editorDom, caret)
  /\ caret' = setCaretOffset(editorDom, tokCaret')
  /\ tokIndex' = getCaretOffset(editorDom, caret')
  /\ tokPc' = "restored"
  /\ UNCHANGED caretFrame

NextCaret == SetCaret \/ RestoreCaret

vars == <<tokVars, sysVars>>

\* ------------------------------------------------------ the initial scan
\* Contents the editor may hold at construction, blank ones included.
StartTexts == UNION {TextsOfLen(n) : n \in 0..MaxLen}

\* The instance just constructed on a document of one text node, the caret
\* anywhere in it, the initial scan scheduled.
InitStart ==
  /\ TokOff
  /\ editorDom \in {RawDom(t) : t \in StartTexts}
  /\ caret \in CaretPositions(editorDom)
  /\ editorClasses = {"paragraph"}
  /\ listeners = AllListeners
  /\ timers = {Timer("scan", InitDelay, "init", FALSE)}
  /\ rafRestore = -1
  /\ sentenceMap = << >>
  /\ sentenceElements = << >>
  /\ activeSentenceId = NoId
  /\ lastContentHash = NullHash
  /\ isInitialized = TRUE
  /\ focusModeEnabled = TRUE
  /\ life = "live"
  /\ ev = NoEvent
  /\ burst = NoBurst

\* No signal is delivered and no method is called: time passes, due
\* callbacks and animation frames run.
NextStart ==
  \/ Tick
  \/ \E t \in timers : FireTimer(t)
  \/ AnimationFrame

\* The event loop runs every callback that is due.
SpecStart == InitStart /\ [][NextStart]_vars /\ WF_vars(NextStart)

Spec == Init /\ [][Next]_vars

SpecLife == Init /\ [][NextLife]_vars

SpecBlank == Init /\ [][NextBlank]_vars

SpecInput == InitInput /\ [][NextInput]_vars

SpecApi == InitNew /\ [][NextApi]_vars

SpecTok == TokInit /\ [][Tokenize]_vars

SpecFind == FindInit /\ [][Find]_vars

SpecId == IdInit /\ [][GenerateIds]_vars

SpecCaret == CaretInit /\ [][NextCaret]_vars

\* Concatenation of the text fields of a sentence array.
RECURSIVE ConcatTexts(_)
ConcatTexts(ss) ==
  IF Len(ss) = 0 THEN << >> ELSE Head(ss).text \o ConcatTexts(Tail(ss))

\* C1: for every non-blank text, concatenating the text fields of the
\* sentences of buildSentenceMap gives back the text (nothing dropped or
\* duplicated).
RoundTrip ==
  (tokPc = "out" /\ ~IsBlank(tokText)) => ConcatTexts(tokSentences) = tokText

\* C2: the sentences of buildSentenceMap cover the text: adjacent sentences
\* touch, the first starts at 0 and the last ends at the text length.
Contiguous ==
  (tokPc = "out" /\ Len(tokSentences) > 0) =>
     /\ tokSentences[1].start = 0
     /\ tokSentences[Len(tokSentences)].end = Len(tokText)
     /\ \A i \in 1..(Len(tokSentences) - 1) :
          tokSentences[i].end = tokSentences[i + 1].start

\* C3: for a non-blank text and a caret offset in [0, length],
\* findActiveSentenceIndex returns an index of the sentence array;
\* -1 only for the empty array.
FindTotal ==
  (tokPc = "out" /\ ~IsBlank(tokText)) =>
     /\ tokIndex \in 0..(Len(tokSentences) - 1)
     /\ (tokIndex = -1 => Len(tokSentences) = 0)

\* C4: on an ordered, non-overlapping sentence array, a caret inside sentence
\* i gives i; a caret on the end boundary of a sentence that is not the last
\* gives the next sentence; a caret at or past the start of the last sentence
\* gives the last index.
FindBoundaries ==
  (tokPc = "out" /\ tokText = << >>) =>
     LET n == Len(tokSentences) IN
     /\ \A i \in 1..n :
          (tokSentences[i].start <= tokCaret /\ tokCaret < tokSentences[i].end)
            => tokIndex = i - 1
     /\ \A i \in 1..(n - 1) : tokCaret = tokSentences[i].end => tokIndex = i
     /\ (n > 0 /\ tokCaret >= tokSentences[n].start) => tokIndex = n - 1

\* Two touching sentences [0,2) and [2,4), caret 2: the second is active.
FindBoundariesWitness ==
  /\ tokPc = "out"
  /\ tokText = << >>
  /\ Len(tokSentences) = 2
  /\ tokSentences[1].start = 0 /\ tokSentences[1].end = 2
  /\ tokSentences[2].start = 2 /\ tokSentences[2].end = 4
  /\ tokCaret = 2
  /\ tokIndex = 1

\* C5 (as stated): input signals with every gap shorter than updateDebounce,
\* and no other signal, get exactly one scan: never a second one, and one once
\* the window after the last signal has passed.
DebounceWindowCollapse ==
  burst.on =>
     /\ burst.runScans <= 1
     /\ (burst.run >= 1 /\ burst.gap >= updateDebounce /\ ~InputPending(timers))
          => burst.runScans = 1

\* C5 (amended): input signals of which each arrives before the scan scheduled
\* by the previous one has run, and no other signal, get exactly one scan.
DebounceChainCollapse ==
  burst.on =>
     /\ burst.chainScans <= 1
     /\ (burst.chain >= 1 /\ ~InputPending(timers)) => burst.chainScans = 1

\* Two or more such input signals and their one scan.
DebounceChainWitness ==
  /\ burst.on
  /\ burst.chain >= 2
  /\ burst.chainScans = 1
  /\ ~InputPending(timers)
  /\ ev.op = "scan" /\ ev.src = "input"

\* C6: once destroy() has returned, no scanAndHighlight and no
\* updateActiveSentence runs.
NoUpdateAfterDestroy ==
  life = "destroyed" => ev.op \notin {"scan", "active"}

\* C7: once destroy() has returned, no signal schedules a callback: the
\* instance holds no timer.
NoScheduleAfterDestroy ==
  life = "destroyed" => \A t \in timers : ~t.held

\* C8: destroy() completes without raising and leaves the sentence
\* collection and the rendered-region map empty, no active sentence,
\* isInitialized false and the surface without the two classes.
DestroyCompletes ==
  ev.op = "destroy" =>
     /\ ~ev.threw
     /\ sentenceMap = << >>
     /\ sentenceElements = << >>
     /\ activeSentenceId = NoId
     /\ ~isInitialized
     /\ editorClasses \cap {"paragraph", "sentence-highlighter-focus-off"} = {}

\* C9: the scan that finds the text of a rendered instance cleared calls
\* onSentenceChange exactly once, with an empty sequence.
ClearedScanNotifies ==
  (ev.op = "scan" /\ ev.blank /\ ev.prevCount > 0 /\ getPlainText(editorDom) = << >>)
     => ev.sc = << << >> >>

\* C10: after a scan that finds the text empty or whitespace-only, the
\* sentence collection and the rendered-region map are empty and there is no
\* active sentence, whatever the state before.
BlankScanClears ==
  (ev.op = "scan" /\ ev.blank) =>
     /\ sentenceMap = << >>
     /\ sentenceElements = << >>
     /\ activeSentenceId = NoId
     /\ getSentences(sentenceMap) = << >>
     /\ getActiveSentence(sentenceMap, activeSentenceId) = NoSentence
     /\ getActiveSentenceIndex(sentenceMap, activeSentenceId) = -1

\* A scan of whitespace-only text on an instance that had sentences.
BlankScanWitness ==
  /\ ev.op = "scan"
  /\ ev.blank
  /\ ev.prevCount > 0
  /\ Len(getPlainText(editorDom)) > 0

\* C11: in an update that leaves the active id as it was (a scan on the
\* incremental path or a navigation recomputation resolving the id that is
\* already active), no marker of the document changes and
\* onActiveSentenceChange is not called.
EqualityShortCircuit ==
  [][(/\ ev'.op \in {"scan", "active"}
      /\ ~ev'.rebuilt /\ ~ev'.blank
      /\ activeSentenceId # NoId
      /\ activeSentenceId' = activeSentenceId)
       => (ev'.ac = << >> /\ editorDom' = editorDom)]_vars

\* C12: an update (scan or navigation recomputation) that changes the active
\* id calls onActiveSentenceChange once, with the index of the new active
\* sentence.
ActiveChangeNotified ==
  [][(ev'.op \in {"scan", "active"} /\ activeSentenceId' # activeSentenceId)
       => (/\ Len(ev'.ac) = 1
           /\ ev'.ac[1].index = getActiveSentenceIndex(sentenceMap', activeSentenceId'))]_vars

\* C13: every call onActiveSentenceChange(index, sentence) with index >= 0
\* hands over the sentence at that index of the sequence the update resolved
\* (the collection stored by a scan, the stored collection for a navigation
\* recomputation), never none.
ActiveCallbackSnapshot ==
  ev.op \in {"scan", "active"} =>
     \A i \in 1..Len(ev.ac) :
        ev.ac[i].index >= 0 =>
           /\ ev.ac[i].index < Len(sentenceMap)
           /\ ev.ac[i].sentence = sentenceMap[ev.ac[i].index + 1]

\* C14: toggleFocusMode() inverts the focus-mode flag and returns the new
\* state of the flag.
ToggleReturnsState ==
  [][ev'.op = "toggleFocusMode" =>
       (/\ focusModeEnabled' = ~focusModeEnabled
        /\ ev'.call.ret = BoolValue(focusModeEnabled'))]_vars

\* C15: setFocusMode and toggleFocusMode run no scan, leave the timers, the
\* sentence collection, the rendered-region map, the active id and the
\* document alone, and a call that turns focus mode on right after a call
\* that turned it off gives back the flag and the focus-off class found by
\* the first call.
FocusRoundTrip ==
  [][ev'.op \in {"setFocusMode", "toggleFocusMode"} =>
       (/\ UNCHANGED <<timers, sentenceMap, sentenceElements, activeSentenceId,
                       editorDom, lastContentHash, rafRestore>>
        /\ ev'.sc = << >> /\ ev'.ac = << >>
        /\ (/\ ev.op \in {"setFocusMode", "toggleFocusMode"}
            /\ ev.call.flag /\ ~focusModeEnabled
            /\ ev'.call.arg \in {"true", "none"})
             => (/\ focusModeEnabled' = ev.call.flag
                 /\ (FocusOffClass \in editorClasses') = ev.call.marker))]_vars

\* Focus mode was on, was turned off and is on again, with a scan pending
\* and sentences rendered.
FocusRoundTripWitness ==
  /\ ev.op \in {"setFocusMode", "toggleFocusMode"}
  /\ ev.call.chain = "true"
  /\ ~ev.call.flag
  /\ focusModeEnabled
  /\ FocusOffClass \notin editorClasses
  /\ timers # {}
  /\ Len(sentenceMap) > 0

\* C16: the constructor given no element or an element that is not editable
\* throws and leaves no listener, no timer and no class.
ConstructorRejects ==
  (ev.op = "construct" /\ ev.call.arg # "editable") =>
     /\ ev.threw
     /\ life = "rejected"
     /\ listeners = {}
     /\ timers = {}
     /\ editorClasses = {}

\* The constructor was given an element that is not contenteditable.
ConstructorRejectsWitness ==
  /\ ev.op = "construct"
  /\ ev.call.arg = "notEditable"
  /\ ev.threw

\* Positions (1-based) of the terminators of a text.
Terminators(t) == {i \in 1..Len(t) : IsEnding(t[i])}

\* The text is a concatenation of segments, each a non-empty run of
\* non-terminators, one terminator and optional whitespace: it starts with a
\* non-terminator, no terminator follows another directly, and only
\* whitespace follows the last terminator.
IsSegmented(t) ==
  /\ Len(t) > 0
  /\ ~IsEnding(t[1])
  /\ \A i \in 1..(Len(t) - 1) : ~(IsEnding(t[i]) /\ IsEnding(t[i + 1]))
  /\ \E i \in Terminators(t) : \A j \in (i + 1)..Len(t) : IsWhitespace(t[j])

\* The offset just after the whitespace that follows the terminator at
\* position i.
BoundaryAfter(t, i) ==
  CHOOSE e \in i..Len(t) :
    /\ \A j \in (i + 1)..e : IsWhitespace(t[j])
    /\ (e = Len(t) \/ ~IsWhitespace(t[e + 1]))

\* C17: a text made of k segments (a non-empty run of non-terminators, one
\* terminator, optional whitespace) gives exactly k sentences, which start
\* at 0, follow one another and end just after the whitespace following each
\* terminator.
SegmentsTokenized ==
  (tokPc = "out" /\ IsSegmented(tokText)) =>
     /\ Len(tokSentences) = Cardinality(Terminators(tokText))
     /\ {tokSentences[j].end : j \in 1..Len(tokSentences)}
          = {BoundaryAfter(tokText, i) : i \in Terminators(tokText)}
     /\ \A j \in 1..Len(tokSentences) :
          /\ tokSentences[j].start = IF j = 1 THEN 0 ELSE tokSentences[j - 1].end
          /\ tokSentences[j].text
               = Substring(tokText, tokSentences[j].start, tokSentences[j].end)

\* C18: a non-blank text without terminator gives exactly one sentence, from
\* 0 to the text length, holding the whole text.
NoTerminatorOneSentence ==
  (tokPc = "out" /\ ~IsBlank(tokText) /\ Terminators(tokText) = {}) =>
     /\ Len(tokSentences) = 1
     /\ tokSentences[1].start = 0
     /\ tokSentences[1].end = Len(tokText)
     /\ tokSentences[1].text = tokText

\* The text "a a" tokenized into one sentence.
NoTerminatorWitness ==
  /\ tokPc = "out"
  /\ tokText = <<"a", " ", "a">>
  /\ Len(tokSentences) = 1

\* C19: buildSentenceMap gives no sentence exactly for the empty and the
\* whitespace-only texts; a text of terminators only gives a sentence.
EmptyIffBlank ==
  tokPc = "out" => (Len(tokSentences) = 0 <=> IsBlank(tokText))

\* A text of terminators only and its sentence.
TerminatorsOnlyWitness ==
  /\ tokPc = "out"
  /\ tokText = <<".", "?">>
  /\ Len(tokSentences) = 1

\* C20: update() scans before it returns: with a non-blank text, getSentences()
\* is then, in order, the tokenization of the text found at the call, and
\* nothing of the previous collection is left.
UpdateScansSynchronously ==
  [][(/\ ev'.op = "scan" /\ ev'.src = "update"
      /\ ~IsBlank(getPlainText(editorDom)))
       => getSentences(sentenceMap') = buildSentenceMapOf(getPlainText(editorDom))]_vars

\* update() returned with fewer sentences than the collection held before.
UpdateScansWitness ==
  /\ ev.op = "scan" /\ ev.src = "update" /\ ~ev.blank
  /\ ev.prevCount > Len(sentenceMap)
  /\ Len(sentenceMap) > 0
  /\ timers # {}
  /\ getSentences(sentenceMap) = buildSentenceMapOf(getPlainText(editorDom))

\* C21: the sentence id is a function of start, end, the first 20 characters
\* of the text and isHeading: two calls that agree on these give the same id,
\* whatever follows the 20th character.
IdDeterminedByKey ==
  (/\ tokPc = "out" /\ idA.id # << >>
   /\ idA.start = idB.start /\ idA.end = idB.end /\ idA.isHeading = idB.isHeading
   /\ Substring(idA.text, 0, 20) = Substring(idB.text, 0, 20))
    => idA.id = idB.id

\* Two texts of 21 characters that differ in the last one, with the same id.
IdDeterminedWitness ==
  /\ tokPc = "out" /\ idA.id # << >>
  /\ Len(idA.text) = 21 /\ Len(idB.text) = 21
  /\ idA.text[21] # idB.text[21]
  /\ Substring(idA.text, 0, 20) = Substring(idB.text, 0, 20)
  /\ idA.id = idB.id

\* C22: at every moment, from construction onward, at most one scheduled
\* update callback (scan or active-sentence recomputation) is outstanding.
AtMostOneScheduled == Cardinality(timers) <= 1

\* The ids that are keys of a Map.
MapIds(m) == {m[i].id : i \in 1..Len(m)}

\* C23: whenever an update path has yielded control, the ids of the
\* rendered-region map are the ids of the sentence collection, and the active
\* reference is none or an id present in both.
StructuresConsistent ==
  /\ MapIds(sentenceElements) = MapIds(sentenceMap)
  /\ activeSentenceId = NoId
       \/ (MapHas(sentenceMap, activeSentenceId) /\ MapHas(sentenceElements, activeSentenceId))

\* The ids of a Map or of a sentence array, in order.
IdsOf(m) == [i \in 1..Len(m) |-> m[i].id]

\* C24: a scan of non-blank text rebuilds the regions whenever the rendered
\* regions are not those of the sentences tokenized from the current text
\* (another count or other ids), also when the fingerprint is unchanged.
MismatchRebuilds ==
  [][(/\ ev'.op = "scan" /\ ~ev'.blank
      /\ IdsOf(sentenceElements) # IdsOf(buildSentenceMap(getPlainText(editorDom))))
       => ev'.rebuilt]_vars

\* The rendered regions of a document: its nodes without the active marker.
RegionsOf(dom) ==
  [wrapped |-> dom.wrapped,
   nodes |-> [k \in 1..Len(dom.nodes) |-> [dom.nodes[k] EXCEPT !.active = FALSE]]]

\* C25: a scan that runs right after a scan of non-blank text, the content
\* not having changed in between, takes the incremental path: no region is
\* created or destroyed.
UnchangedScanIncremental ==
  [][(ev.op = "scan" /\ ~ev.blank /\ ev'.op = "scan")
       => (/\ ~ev'.rebuilt
           /\ sentenceElements' = sentenceElements
           /\ RegionsOf(editorDom') = RegionsOf(editorDom))]_vars

\* C26: the navigation-only recomputation (updateActiveSentence) creates,
\* destroys and replaces no region and leaves the sentence collection, the
\* region map, the stored fingerprint and the caret alone: it changes only
\* the active reference and the active markers.
NavigationOnlyMovesMarker ==
  [][ev'.op = "active"
       => (/\ RegionsOf(editorDom') = RegionsOf(editorDom)
           /\ UNCHANGED <<sentenceMap, sentenceElements, lastContentHash, caret,
                          rafRestore>>
           /\ ev'.sc = << >>
           /\ ~ev'.rebuilt)]_vars

\* A navigation-only recomputation moved the active sentence to the second
\* of two sentences.
NavigationWitness ==
  /\ ev.op = "active"
  /\ Len(ev.ac) = 1
  /\ Len(sentenceMap) >= 2
  /\ getActiveSentenceIndex(sentenceMap, activeSentenceId) = 1

\* The delay the scan of an input signal is due after, for the text and the
\* caret offset found after the character was typed: the fast-path delay when
\* the character before the typed one is a terminator.
ExpectedInputDelay(text, caretOffset) ==
  IF caretOffset >= 2 /\ IsEnding(text[caretOffset - 1])
  THEN FastPathDelay ELSE updateDebounce

\* C27: a typed character (an input signal) leaves exactly one scheduled
\* update, a scan due after the fast-path delay when the character before
\* the typed one is a terminator and after updateDebounce otherwise; whatever
\* was pending is cancelled.
InputSchedulesOneScan ==
  [][(/\ ev'.op = "signal"
      /\ Len(getPlainText(editorDom')) = Len(getPlainText(editorDom)) + 1)
       => timers' = {Timer("scan",
                           ExpectedInputDelay(getPlainText(editorDom'),
                                              getCaretOffset(editorDom', caret')),
                           "input", TRUE)}]_vars

\* C28: setCaretOffset(t) followed by getCaretOffset() gives min(t, text
\* length), on plain text and on rebuilt regions; setCaretOffset of the offset
\* just measured leaves the offset as it was.
CaretRoundTrip ==
  /\ tokPc = "set" => tokIndex = Min(tokCaret, Len(getPlainText(editorDom)))
  /\ tokPc = "restored" => tokIndex = tokCaret

\* A target past the end of two rebuilt regions, measured at the text length.
CaretRoundTripWitness ==
  /\ tokPc = "set"
  /\ editorDom.wrapped /\ Len(editorDom.nodes) = 2
  /\ tokCaret > Len(getPlainText(editorDom))
  /\ tokIndex = Len(getPlainText(editorDom))

\* C29: when the caret restore deferred by a rebuild runs, a caret that a
\* signal placed after the rebuild (it is no longer at the editor's start,
\* where the rebuild left the selection) keeps its offset; and when the
\* restore runs right after the rebuild, the offset is the pre-rebuild one.
RestoreKeepsUserCaret ==
  [][(rafRestore >= 0 /\ rafRestore' = -1)
       => (/\ caret # CaretAtStart
                => getCaretOffset(editorDom', caret') = getCaretOffset(editorDom, caret)
           /\ (ev.op = "scan" /\ ev.rebuilt)
                => getCaretOffset(editorDom', caret') = rafRestore)]_vars

\* C30: a selectionchange signal whose anchor is outside the editor cancels
\* and schedules nothing and changes no state of the instance or the surface.
OutsideSelectionIgnored ==
  [][ev'.src = "selectionOutside"
       => UNCHANGED <<timers, editorDom, caret, editorClasses, listeners, rafRestore,
                      sentenceMap, sentenceElements, activeSentenceId,
                      lastContentHash, isInitialized, focusModeEnabled, life>>]_vars

\* The signal arrived while a scan scheduled by an input signal was pending,
\* and the scan is still pending.
OutsideSelectionWitness ==
  /\ ev.src = "selectionOutside"
  /\ \E t \in timers : t.held /\ t.kind = "scan" /\ t.src = "input"
  /\ Len(sentenceMap) > 0

\* C31: every sentence of buildSentenceMap is non-empty and exact
\* (0 <= start < end <= text length, text is the substring from start to
\* end), and the sentences are ordered without overlap.
SentencesExact ==
  tokPc = "out" =>
     \A i \in 1..Len(tokSentences) :
        /\ 0 <= tokSentences[i].start
        /\ tokSentences[i].start < tokSentences[i].end
        /\ tokSentences[i].end <= Len(tokText)
        /\ tokSentences[i].text = Substring(tokText, tokSentences[i].start, tokSentences[i].end)
        /\ i < Len(tokSentences) => tokSentences[i].end <= tokSentences[i + 1].start

\* Two sentences, the first ending in whitespace, the second after a skipped
\* terminator.
SentencesExactWitness ==
  /\ tokPc = "out"
  /\ Len(tokSentences) = 2
  /\ IsWhitespace(tokSentences[1].text[Len(tokSentences[1].text)])
  /\ tokSentences[1].end < tokSentences[2].start

\* Nothing is scheduled: no timer and no animation frame is outstanding, so
\* the instance runs no code until another signal or call arrives.
Quiescent == timers = {} /\ rafRestore = -1

\* C32: once the signals have stopped and everything scheduled has run, a
\* scan of the final content has run: getSentences() is the tokenization of
\* the current text, also when navigation-only signals arrived while the scan
\* of an input signal was pending.
FinalContentScanned ==
  Quiescent => getSentences(sentenceMap) = buildSentenceMap(getPlainText(editorDom))

\* C33: a full rebuild preserves the plain text of the editor: the flattened
\* text after rebuildHighlights replaced the content is the text before.
RebuildPreservesText ==
  [][(ev'.op = "scan" /\ ev'.rebuilt)
       => getPlainText(editorDom') = getPlainText(editorDom)]_vars

\* C34: after a scan of non-blank text, the active reference identifies the
\* sentence findActiveSentenceIndex selects for the caret offset the scan
\* measured: getActiveSentenceIndex() is that index, -1 when none is selected.
ScanSetsActiveIndex ==
  [][(ev'.op = "scan" /\ ~ev'.blank)
       => getActiveSentenceIndex(sentenceMap', activeSentenceId')
            = findActiveSentenceIndex(buildSentenceMap(getPlainText(editorDom)),
                                      getCaretOffset(editorDom, caret))]_vars

\* The spans of the document that carry the active class and attribute.
ActiveSpans(dom) ==
  {k \in 1..Len(dom.nodes) : dom.nodes[k].sid # NoId /\ dom.nodes[k].active}

\* C35: at most one rendered region carries the active marker, and the
\* sentence id of the one that does is the active reference.
SingleActiveMarker ==
  /\ Cardinality(ActiveSpans(editorDom)) <= 1
  /\ \A k \in ActiveSpans(editorDom) : editorDom.nodes[k].sid = activeSentenceId

\* A navigation-only recomputation moved the marker to the second of two
\* regions.
SingleActiveMarkerWitness ==
  /\ ev.op = "active" /\ Len(ev.ac) = 1
  /\ Len(editorDom.nodes) = 2
  /\ ActiveSpans(editorDom) = {2}

\* C36: getActiveSentence() is none exactly when getActiveSentenceIndex() is
\* -1, and otherwise it is the element of getSentences() at that index.
ActiveGettersAgree ==
  LET s == getActiveSentence(sentenceMap, activeSentenceId)
      i == getActiveSentenceIndex(sentenceMap, activeSentenceId)
  IN /\ (s = NoSentence) <=> (i = -1)
     /\ i # -1 => /\ i >= 0 /\ i < Len(getSentences(sentenceMap))
                  /\ s = getSentences(sentenceMap)[i + 1]

\* The second of two sentences is the active one.
ActiveGettersAgreeWitness ==
  /\ Len(getSentences(sentenceMap)) = 2
  /\ getActiveSentenceIndex(sentenceMap, activeSentenceId) = 1
  /\ getActiveSentence(sentenceMap, activeSentenceId) = sentenceMap[2]

\* The document shows one span per sentence of ss, in order, and
\* getSentences() returns ss.
RenderedAs(dom, sMap, ss) ==
  /\ Len(dom.nodes) = Len(ss)
  /\ \A i \in 1..Len(ss) : /\ dom.nodes[i].sid = ss[i].id
                            /\ dom.nodes[i].sid # NoId
                            /\ dom.nodes[i].text = ss[i].text
  /\ getSentences(sMap) = ss

\* C37: with no signal and no destroy(), the scan scheduled InitDelay after
\* construction eventually runs; on non-blank text it leaves one span per
\* sentence of the text, in order, and getSentences() equal to the
\* tokenization of the text, and nothing changes that afterwards.
InitialScanRenders ==
  /\ (timers = {Timer("scan", InitDelay, "init", FALSE)})
       ~> (timers = {} /\ rafRestore = -1)
  /\ [][IF ev'.op = "scan"
        THEN /\ ev'.src = "init"
             /\ timers = {Timer("scan", 0, "init", FALSE)}
             /\ ~IsBlank(getPlainText(editorDom)) =>
                   RenderedAs(editorDom', sentenceMap',
                              buildSentenceMap(getPlainText(editorDom)))
        ELSE UNCHANGED <<editorDom, sentenceMap>>]_vars

\* The initial scan ran on a text of two sentences and rendered both.
InitialScanRendersWitness ==
  /\ ev.op = "scan" /\ ev.src = "init" /\ ev.rebuilt
  /\ timers = {}
  /\ Len(editorDom.nodes) = 2
  /\ RenderedAs(editorDom, sentenceMap, buildSentenceMap(getPlainText(editorDom)))

\* C38: a scan of non-blank text calls onSentenceChange exactly once, with
\* the replaced sentence collection as getSentences() returns it (the
\* tokenization of the scanned text); a navigation-only recomputation never
\* calls it.
SentenceChangeOncePerScan ==
  [][IF ev'.op = "scan" /\ ~IsBlank(getPlainText(editorDom))
     THEN /\ Len(ev'.sc) = 1
          /\ ev'.sc[1] = getSentences(sentenceMap')
          /\ ev'.sc[1] = buildSentenceMap(getPlainText(editorDom))
     ELSE ev'.op = "active" => ev'.sc = << >>]_vars

\* A scan replaced a collection of one sentence by one of two and reported
\* the two.
SentenceChangeOncePerScanWitness ==
  /\ ev.op = "scan" /\ ~ev.blank
  /\ ev.prevCount = 1
  /\ Len(ev.sc) = 1
  /\ Len(ev.sc[1]) = 2
  /\ ev.sc[1] = getSentences(sentenceMap)

====
